---- MODULE Spec2Model ----
(***************************************************************************)
(* Model of src/app.py: one Streamlit run over one uploaded keyword        *)
(* export.  main() calls process_file (decode, select columns, clean,      *)
(* coerce), then cluster_keywords (sort, group by url, metrics, format,    *)
(* final sort), then renders and exports the result table.                 *)
(*                                                                         *)
(* Units.  Every volume (cell, total, top keyword volume, listed line) is  *)
(* held as a count of halves (3 stands for 1.5), so that int(v) of lines   *)
(* 71 and 92 is a real truncation.  avg_position and the summary mean are  *)
(* held in tenths (15 stands for 1.5).  Positions are whole numbers.       *)
(* NaN is the value pandas gives a missing or unparseable numeric cell;    *)
(* NaNText is the same for a missing text cell.                            *)
(***************************************************************************)
EXTENDS Integers, Sequences, FiniteSets, TLC

\* ---- bounds of the model ------------------------------------------------
\* Rows in the uploaded file.
MaxRows == 2
\* Largest volume, in halves: volumes range over 0.5, 1.0, ..., MaxVolume / 2.
MaxVolume == 2

\* ---- values ---------------------------------------------------------------
NaN == -1
NaNText == "NaN"

\* The url values, listed in ascending string order (the order groupby sorts in).
Urls == <<"/a", "/b">>

\* The position values a cell can hold.
Positions == {1, 2}

KeywordOfRow(i) == "k" \o ToString(i)

\* The cells of one row of df_cleaned after the cleaning and coercion of lines
\* 42-48: every cell may be missing or unparseable.
Cells ==
    [keyword : {"present", NaNText},
     volume : {NaN} \cup (1..MaxVolume),
     position : {NaN} \cup Positions,
     url : {Urls[k] : k \in 1..Len(Urls)} \cup {NaNText}]

\* Row i of the frame: its index label and cells; a keyword, when present, is the
\* row's own.
MakeRow(i, c) ==
    [index |-> i,
     keyword |-> IF c.keyword = NaNText THEN NaNText ELSE KeywordOfRow(i),
     volume |-> c.volume,
     position |-> c.position,
     url |-> c.url]

\* ---- pure helpers ---------------------------------------------------------
RECURSIVE SeqSum(_)
SeqSum(s) == IF s = <<>> THEN 0 ELSE Head(s) + SeqSum(Tail(s))

HasNaN(s) == \E i \in 1..Len(s) : s[i] = NaN

\* Python's builtin sum over a list of floats: one NaN makes the sum NaN.
PySum(s) == IF HasNaN(s) THEN NaN ELSE SeqSum(s)

\* int(v) on a non-NaN volume: truncation to a whole number (still held in halves).
IntOf(v) == (v \div 2) * 2

\* round(total / n, 1) in tenths, ties to even (n > 0, total >= 0).  Exact for
\* n < 20: a tie then falls on a quarter, which a binary float holds exactly.
RoundTenths(total, n) ==
    LET q == (10 * total) \div n
        r == (10 * total) % n
    IN  IF 2 * r < n THEN q
        ELSE IF 2 * r > n THEN q + 1
        ELSE IF q % 2 = 0 THEN q ELSE q + 1

\* lambda x: round(sum(x)/len(x), 1) of line 83, for a non-empty list.
AvgPosition(positions) ==
    IF HasNaN(positions) THEN NaN
    ELSE RoundTenths(SeqSum(positions), Len(positions))

IndexOrders(n) ==
    {p \in [1..n -> 1..n] : \A i, j \in 1..n : i # j => p[i] # p[j]}

\* The index orders DataFrame.sort_values may produce for the key column `keys`:
\* NaN keys last and in their input order (na_position='last'), the others in key
\* order; the default kind='quicksort' is not stable, so rows with equal keys may
\* come out in any relative order.
ArgSorts(keys, ascending) ==
    {p \in IndexOrders(Len(keys)) :
        \A i, j \in 1..Len(keys) : i < j =>
            IF keys[p[j]] = NaN
            THEN keys[p[i]] # NaN \/ p[i] < p[j]
            ELSE /\ keys[p[i]] # NaN
                 /\ IF ascending THEN keys[p[i]] <= keys[p[j]]
                                 ELSE keys[p[i]] >= keys[p[j]]}

Reorder(frame, p) == [i \in 1..Len(frame) |-> frame[p[i]]]

Column(frame, name) == [i \in 1..Len(frame) |-> frame[i][name]]

SkipNaN(s) == SelectSeq(s, LAMBDA v : v # NaN)

\* ---- cluster_keywords, step by step -----------------------------------------
\* df.sort_values(by='volume', ascending=False): every frame the sort may return.
SortByVolume(frame) ==
    {Reorder(frame, p) : p \in ArgSorts(Column(frame, "volume"), FALSE)}

\* df_sorted[df_sorted['url'] == url]; a NaN url equals nothing, itself included.
UrlRows(frame, u) == SelectSeq(frame, LAMBDA r : r.url = u /\ u # NaNText)

\* The urls of df_sorted['url'].unique() whose url_df is not empty.
UniqueUrls(frame) == {frame[i].url : i \in 1..Len(frame)} \ {NaNText}

TopKeywords(frame) == [u \in UniqueUrls(frame) |-> UrlRows(frame, u)[1].keyword]

\* int(url_df.iloc[0]['volume']) raises ValueError on NaN.
TopVolumesRaise(frame) == \E u \in UniqueUrls(frame) : UrlRows(frame, u)[1].volume = NaN

TopVolumes(frame) == [u \in UniqueUrls(frame) |-> IntOf(UrlRows(frame, u)[1].volume)]

\* Series.map(dict): a key the dict lacks maps to NaN.
MapDict(d, u, missing) == IF u \in DOMAIN d THEN d[u] ELSE missing

\* The urls in order of first appearance in a frame (NaN urls skipped).
RECURSIVE FirstSeen(_, _)
FirstSeen(frame, seen) ==
    IF frame = <<>> THEN <<>>
    ELSE LET u == Head(frame).url
         IN  IF u = NaNText \/ u \in seen
             THEN FirstSeen(Tail(frame), seen)
             ELSE <<u>> \o FirstSeen(Tail(frame), seen \cup {u})

\* Variant of GroupKeys: keys left in first-appearance order (as with sort=False).
GroupKeysUnsorted(frame) == FirstSeen(frame, {})

\* Variant of GroupKeys: a key for every known url, with or without rows.
GroupKeysAllUrls(frame) == Urls

\* groupby('url') keys: the urls present, NaN dropped (dropna=True), in ascending
\* url order (sort=True).
GroupKeys(frame) == SelectSeq(Urls, LAMBDA u : u \in UniqueUrls(frame))

\* groupby('url', as_index=False).agg({'keyword': list, 'position': list, 'volume': list})
GroupBy(frame) ==
    LET keys == GroupKeys(frame)
    IN  [g \in 1..Len(keys) |->
            LET rows == UrlRows(frame, keys[g])
            IN  [url |-> keys[g],
                 keyword |-> Column(rows, "keyword"),
                 position |-> Column(rows, "position"),
                 volume |-> Column(rows, "volume")]]

\* sum(x)/len(x) raises ZeroDivisionError on an empty list.
MetricsRaise(groups) == \E g \in 1..Len(groups) : Len(groups[g].position) = 0

\* str(int(v)) raises ValueError on a NaN volume.
FormatRaises(groups) == \E g \in 1..Len(groups) : HasNaN(groups[g].volume)

\* One row of `result`: metrics, top keyword columns, formatted multi-value cells
\* (a joined text cell is held as the sequence of its lines; a volume line is int(v)).
ResultRow(g, topKeywords, topVolumes) ==
    [url |-> g.url,
     top_keyword |-> MapDict(topKeywords, g.url, NaNText),
     top_keyword_volume |-> MapDict(topVolumes, g.url, NaN),
     avg_position |-> AvgPosition(g.position),
     keyword_count |-> Len(g.keyword),
     total_volume |-> PySum(g.volume),
     keyword |-> g.keyword,
     volume |-> [i \in 1..Len(g.volume) |-> IntOf(g.volume[i])],
     position |-> g.position]

BuildResult(frame) ==
    LET groups == GroupBy(frame)
    IN  [g \in 1..Len(groups) |-> ResultRow(groups[g], TopKeywords(frame), TopVolumes(frame))]

ClusterRaises(frame) ==
    \/ TopVolumesRaise(frame)
    \/ MetricsRaise(GroupBy(frame))
    \/ FormatRaises(GroupBy(frame))

ClusterException(frame) ==
    IF TopVolumesRaise(frame) THEN "ValueError"
    ELSE IF MetricsRaise(GroupBy(frame)) THEN "ZeroDivisionError"
    ELSE "ValueError"

\* Variant of SortResult: the final sort in descending order.
SortResultDescending(table) ==
    {Reorder(table, p) : p \in ArgSorts(Column(table, "top_keyword_volume"), FALSE)}

\* result.sort_values(by='top_keyword_volume', ascending=True)
SortResult(table) ==
    {Reorder(table, p) : p \in ArgSorts(Column(table, "top_keyword_volume"), TRUE)}

\* ---- main's summary tiles --------------------------------------------------
\* f"{x:,.0f}" on a volume total: rounded to a whole number, ties to even.
FormatWhole(h) ==
    IF h % 2 = 0 THEN h
    ELSE IF (h \div 2) % 2 = 0 THEN h - 1 ELSE h + 1

\* len(df), df['volume'].sum(), df['position'].mean(): pandas skips NaN in both.
Summary(frame) ==
    LET vs == SkipNaN(Column(frame, "volume"))
        ps == SkipNaN(Column(frame, "position"))
    IN  [count |-> Len(frame),
         volume |-> FormatWhole(SeqSum(vs)),
         position |-> IF ps = <<>> THEN NaN ELSE RoundTenths(SeqSum(ps), Len(ps))]

\* ---- state ------------------------------------------------------------------
VARIABLES
    pc,             \* where the run is, in main / process_file / cluster_keywords
    streamPos,      \* uploaded_file's read position: 0 is the start of the stream
    attempts,       \* the pd.read_csv calls made so far, in order
    dfReturn,       \* what process_file returned: "pending", "None" or "DataFrame"
    df,             \* the frame process_file returned (main's df)
    df_sorted,      \* cluster_keywords' df_sorted
    grouped,        \* cluster_keywords' grouped / result before the final sort
    resultsReturn,  \* what cluster_keywords returned: "pending", "None" or "DataFrame"
    results,        \* the table cluster_keywords returned (main's results)
    errors,         \* the st.error reports, in order
    calls,          \* the stages main has entered, in order
    metrics,        \* the summary handed to st.metric (empty or one entry)
    shown,          \* the table handed to st.dataframe (empty or one entry)
    download        \* the table handed to st.download_button (empty or one entry)

vars ==
    <<pc, streamPos, attempts, dfReturn, df, df_sorted, grouped, resultsReturn,
      results, errors, calls, metrics, shown, download>>

clusterVars == <<df_sorted, grouped, resultsReturn, results>>
outputVars == <<metrics, shown, download>>

ReadOutcomes == {"ok", "UnicodeError", "OtherError"}

\* The frames of n rows process_file can return, rows in file order, index 1..n.
\* The code never branches on a keyword, so a missing keyword is tried in the
\* first row only.
FramesOfLen(n) ==
    {[i \in 1..n |-> MakeRow(i, c[i])] :
        c \in {d \in [1..n -> Cells] : \A i \in 2..n : d[i].keyword # NaNText}}

\* A file has been uploaded (line 194) and nothing has run yet.
Init ==
    /\ pc = "uploaded"
    /\ streamPos = 0
    /\ attempts = <<>>
    /\ dfReturn = "pending"
    /\ df = <<>>
    /\ df_sorted = <<>>
    /\ grouped = <<>>
    /\ resultsReturn = "pending"
    /\ results = <<>>
    /\ errors = <<>>
    /\ calls = <<>>
    /\ metrics = <<>>
    /\ shown = <<>>
    /\ download = <<>>

\* ---- process_file -----------------------------------------------------------
\* The outer `except Exception` of lines 52-56: report and return None.
ProcessFileFails(exception) ==
    /\ errors' = Append(errors, [stage |-> "chargement", exception |-> exception])
    /\ dfReturn' = "None"
    /\ df' = <<>>
    /\ pc' = "process_file_returned"

\* Lines 10-15: main calls process_file, which reads the stream as UTF-16.
ReadUtf16 ==
    /\ pc = "uploaded"
    /\ calls' = Append(calls, "process_file")
    /\ \E outcome \in ReadOutcomes :
        /\ attempts' = Append(attempts,
               [encoding |-> "utf-16", startPos |-> streamPos, outcome |-> outcome])
        /\ streamPos' = 1
        /\ CASE outcome = "ok" ->
                    pc' = "parsed" /\ UNCHANGED <<dfReturn, df, errors>>
             [] outcome = "UnicodeError" ->
                    pc' = "except_UnicodeError" /\ UNCHANGED <<dfReturn, df, errors>>
             [] OTHER -> ProcessFileFails(outcome)
    /\ UNCHANGED <<clusterVars, outputVars>>

\* Variant of Seek: no rewind, the stream stays where the first read left it.
SeekSkipped ==
    /\ pc = "except_UnicodeError"
    /\ pc' = "rewound"
    /\ UNCHANGED <<streamPos, attempts, dfReturn, df, errors, calls, clusterVars, outputVars>>

\* Line 17: uploaded_file.seek(0).
Seek ==
    /\ pc = "except_UnicodeError"
    /\ streamPos' = 0
    /\ pc' = "rewound"
    /\ UNCHANGED <<attempts, dfReturn, df, errors, calls, clusterVars, outputVars>>

\* Lines 18-23: the second read, as UTF-8; any failure reaches the outer except.
ReadUtf8 ==
    /\ pc = "rewound"
    /\ \E outcome \in ReadOutcomes :
        /\ attempts' = Append(attempts,
               [encoding |-> "utf-8", startPos |-> streamPos, outcome |-> outcome])
        /\ streamPos' = 1
        /\ IF outcome = "ok"
           THEN pc' = "parsed" /\ UNCHANGED <<dfReturn, df, errors>>
           ELSE ProcessFileFails(outcome)
    /\ UNCHANGED <<calls, clusterVars, outputVars>>

\* Lines 26-39: a required column is absent, df[[...]] raises KeyError.
SelectColumnsFails ==
    /\ pc = "parsed"
    /\ ProcessFileFails("KeyError")
    /\ UNCHANGED <<streamPos, attempts, calls, clusterVars, outputVars>>

\* Line 47: the Volume column was parsed as numbers, not text: .str raises AttributeError.
CoerceVolumeFails ==
    /\ pc = "parsed"
    /\ ProcessFileFails("AttributeError")
    /\ UNCHANGED <<streamPos, attempts, calls, clusterVars, outputVars>>

\* Lines 26-50: columns selected, cells stripped, volume and position coerced
\* (unparseable -> NaN), frame returned; a missing url or keyword cell stays NaN.
Normalize ==
    /\ pc = "parsed"
    /\ \E n \in 0..MaxRows : \E frame \in FramesOfLen(n) : df' = frame
    /\ dfReturn' = "DataFrame"
    /\ pc' = "process_file_returned"
    /\ UNCHANGED <<streamPos, attempts, errors, calls, clusterVars, outputVars>>

\* ---- main, after process_file -------------------------------------------------
\* Variant of DfAccepted: whatever process_file returned is accepted.
DfAcceptedAlways == dfReturn # "pending"

\* Line 197: `if df is not None`.
DfAccepted == dfReturn = "DataFrame"

\* Line 197 false: nothing more happens in this run.
StopAfterProcessFile ==
    /\ pc = "process_file_returned"
    /\ ~DfAccepted
    /\ pc' = "done"
    /\ UNCHANGED <<streamPos, attempts, dfReturn, df, errors, calls, clusterVars, outputVars>>

\* ---- cluster_keywords ---------------------------------------------------------
\* Lines 198 and 62: main calls cluster_keywords(df), which sorts by volume.
SortValues ==
    /\ pc = "process_file_returned"
    /\ DfAccepted
    /\ calls' = Append(calls, "cluster_keywords")
    /\ \E sorted \in SortByVolume(df) : df_sorted' = sorted
    /\ pc' = "sorted"
    /\ UNCHANGED <<streamPos, attempts, dfReturn, df, errors, grouped, resultsReturn,
                   results, outputVars>>

\* Lines 64-105 raise: the `except Exception` of lines 112-114 reports and returns None.
AggregateFails ==
    /\ pc = "sorted"
    /\ ClusterRaises(df_sorted)
    /\ errors' = Append(errors,
           [stage |-> "clustering", exception |-> ClusterException(df_sorted)])
    /\ resultsReturn' = "None"
    /\ pc' = "cluster_keywords_returned"
    /\ UNCHANGED <<streamPos, attempts, dfReturn, df, df_sorted, grouped, results,
                   calls, outputVars>>

\* Lines 64-105: top keyword dicts, groupby, metrics, formatting, column selection.
Aggregate ==
    /\ pc = "sorted"
    /\ ~ClusterRaises(df_sorted)
    /\ grouped' = BuildResult(df_sorted)
    /\ pc' = "aggregated"
    /\ UNCHANGED <<streamPos, attempts, dfReturn, df, df_sorted, resultsReturn, results,
                   errors, calls, outputVars>>

\* Lines 108-110: the final sort and the return.
SortAndReturn ==
    /\ pc = "aggregated"
    /\ \E table \in SortResult(grouped) : results' = table
    /\ resultsReturn' = "DataFrame"
    /\ pc' = "cluster_keywords_returned"
    /\ UNCHANGED <<streamPos, attempts, dfReturn, df, df_sorted, grouped, errors, calls,
                   outputVars>>

\* ---- main, after cluster_keywords ---------------------------------------------
\* Line 200 false: nothing is rendered or exported.
StopAfterCluster ==
    /\ pc = "cluster_keywords_returned"
    /\ resultsReturn # "DataFrame"
    /\ pc' = "done"
    /\ UNCHANGED <<streamPos, attempts, dfReturn, df, errors, calls, clusterVars, outputVars>>

\* Lines 200-289: the three summary tiles and the result table.
Render ==
    /\ pc = "cluster_keywords_returned"
    /\ resultsReturn = "DataFrame"
    /\ calls' = Append(calls, "render")
    /\ metrics' = <<Summary(df)>>
    /\ shown' = <<results>>
    /\ pc' = "rendered"
    /\ UNCHANGED <<streamPos, attempts, dfReturn, df, errors, clusterVars, download>>

\* Lines 291-301: the renamed table, as CSV, behind the download button.
Export ==
    /\ pc = "rendered"
    /\ calls' = Append(calls, "export")
    /\ download' = <<results>>
    /\ pc' = "done"
    /\ UNCHANGED <<streamPos, attempts, dfReturn, df, errors, clusterVars, metrics, shown>>

Next ==
    \/ ReadUtf16
    \/ Seek
    \/ ReadUtf8
    \/ SelectColumnsFails
    \/ CoerceVolumeFails
    \/ Normalize
    \/ StopAfterProcessFile
    \/ SortValues
    \/ AggregateFails
    \/ Aggregate
    \/ SortAndReturn
    \/ StopAfterCluster
    \/ Render
    \/ Export

Spec == Init /\ [][Next]_vars

\* ---- properties ---------------------------------------------------------------
TableReturned == resultsReturn = "DataFrame"

ClusterReturned == resultsReturn # "pending"

UrlRank(u) == CHOOSE k \in 1..Len(Urls) : Urls[k] = u

SeqMax(s) == CHOOSE m \in {s[i] : i \in 1..Len(s)} : \A i \in 1..Len(s) : s[i] <= m

\* Where url u stands in the first-appearance order of df_sorted.
FirstSeenRank(u) ==
    LET order == FirstSeen(df_sorted, {})
    IN  CHOOSE k \in 1..Len(order) : order[k] = u

\* The rows of a frame that carry url u.
RowsOf(frame, u) == SelectSeq(frame, LAMBDA r : r.url = u)

\* C1: whenever cluster_keywords returns a table, the keyword_count values of its
\* rows sum to the number of records it was given (no record dropped or doubled).
C1_CountsCoverEveryRecord ==
    TableReturned => SeqSum(Column(results, "keyword_count")) = Len(df)

\* C2: in every row of the returned table, total_volume is the sum of the volumes
\* the row lists, top_keyword_volume is the largest of them, and top_keyword is the
\* keyword of a record of that url whose volume is that largest one.
C2_TotalAndTopMatchListedVolumes ==
    TableReturned =>
        \A g \in 1..Len(results) :
            /\ results[g].total_volume = SeqSum(results[g].volume)
            /\ results[g].top_keyword_volume = SeqMax(results[g].volume)
            /\ \E i \in 1..Len(df) :
                /\ df[i].url = results[g].url
                /\ df[i].keyword = results[g].top_keyword
                /\ IntOf(df[i].volume) = results[g].top_keyword_volume

\* C3: when a record (with a url) has a NaN volume, cluster_keywords still returns
\* a table; the record's group counts it in keyword_count and leaves its volume out
\* of total_volume.
C3_NullVolumeCountedNotSummed ==
    \A i \in 1..Len(df) :
        (ClusterReturned /\ df[i].volume = NaN /\ df[i].url # NaNText) =>
            /\ TableReturned
            /\ \E g \in 1..Len(results) :
                /\ results[g].url = df[i].url
                /\ results[g].keyword_count = Len(RowsOf(df, df[i].url))
                /\ results[g].total_volume =
                       SeqSum(SkipNaN(Column(RowsOf(df, df[i].url), "volume")))

\* C4: every record process_file returns has a url and a keyword, and no record
\* is missing from the groups of a table cluster_keywords returned without error.
C4_UrlAndKeywordNeverNull ==
    /\ dfReturn = "DataFrame" =>
            \A i \in 1..Len(df) : df[i].url # NaNText /\ df[i].keyword # NaNText
    /\ (TableReturned /\ errors = <<>>) =>
            \A i \in 1..Len(df) : \E g \in 1..Len(results) :
                \E k \in 1..Len(results[g].keyword) :
                    results[g].url = df[i].url /\ results[g].keyword[k] = df[i].keyword

\* C5: the returned table is non-decreasing in top_keyword_volume, first row to last.
C5_TableAscendingInTopVolume ==
    TableReturned =>
        \A i, j \in 1..Len(results) :
            i < j => results[i].top_keyword_volume <= results[j].top_keyword_volume

\* C5 witness: a table of two groups with different top volumes, the url of the
\* highest-volume record (first in df_sorted) coming last.
C5_Witness ==
    /\ TableReturned
    /\ Len(results) = 2
    /\ results[1].top_keyword_volume < results[2].top_keyword_volume
    /\ df_sorted[1].url = results[2].url

IsPrefix(s, t) == Len(s) <= Len(t) /\ \A i \in 1..Len(s) : s[i] = t[i]

InCalls(stage) == \E i \in 1..Len(calls) : calls[i] = stage

\* C6: the stages run in the order process_file, cluster_keywords, render, export;
\* cluster_keywords runs only on a frame process_file returned, rendering and export
\* only on a table cluster_keywords returned, and they show that whole table; a
\* failure is reported once, returns None and leaves no output.
C6_StagesInOrderAllOrNothing ==
    /\ IsPrefix(calls, <<"process_file", "cluster_keywords", "render", "export">>)
    /\ InCalls("cluster_keywords") => dfReturn = "DataFrame"
    /\ InCalls("render") => TableReturned
    /\ metrics # <<>> => InCalls("render")
    /\ shown # <<>> => InCalls("render") /\ shown = <<results>>
    /\ download # <<>> => InCalls("export") /\ download = <<results>> /\ shown = <<results>>
    /\ Len(errors) <= 1
    /\ (dfReturn = "None") = (\E i \in 1..Len(errors) : errors[i].stage = "chargement")
    /\ (resultsReturn = "None") = (\E i \in 1..Len(errors) : errors[i].stage = "clustering")
    /\ errors # <<>> => metrics = <<>> /\ shown = <<>> /\ download = <<>>
    /\ (dfReturn = "None") => df_sorted = <<>> /\ grouped = <<>> /\ resultsReturn = "pending"

\* C6 witness: a file without a required column: the run is over, the KeyError was
\* reported, and only process_file ever ran.
C6_Witness ==
    /\ pc = "done"
    /\ errors = <<[stage |-> "chargement", exception |-> "KeyError"]>>
    /\ calls = <<"process_file">>
    /\ download = <<>>

\* C7: at most two reads, UTF-16 then UTF-8; the UTF-8 read follows a UnicodeError
\* of the UTF-16 read, starts at the start of the stream, and when it fails
\* process_file reports the error and returns None.
C7_Utf16ThenUtf8Once ==
    /\ Len(attempts) <= 2
    /\ Len(attempts) >= 1 => attempts[1].encoding = "utf-16"
    /\ Len(attempts) = 2 =>
        /\ attempts[2].encoding = "utf-8"
        /\ attempts[1].outcome = "UnicodeError"
        /\ attempts[2].startPos = 0
        /\ attempts[2].outcome # "ok" =>
            /\ dfReturn = "None"
            /\ errors = <<[stage |-> "chargement", exception |-> attempts[2].outcome]>>
    /\ (Len(attempts) = 1 /\ attempts[1].outcome = "OtherError") => dfReturn = "None"

\* C7 witness: both reads failed with a decoding error and the run has ended.
C7_Witness ==
    /\ Len(attempts) = 2
    /\ attempts[2].outcome = "UnicodeError"
    /\ dfReturn = "None"
    /\ pc = "done"

\* C8: given a frame of zero records cluster_keywords returns an empty table, and
\* for any frame no group is empty and no ZeroDivisionError is ever reported.
C8_EmptyFrameEmptyTable ==
    /\ (dfReturn = "DataFrame" /\ df = <<>> /\ ClusterReturned) =>
            TableReturned /\ results = <<>>
    /\ \A i \in 1..Len(errors) : errors[i].exception # "ZeroDivisionError"
    /\ InCalls("cluster_keywords") =>
            LET groups == GroupBy(df_sorted)
            IN  \A g \in 1..Len(groups) : Len(groups[g].position) >= 1
    /\ \A g \in 1..Len(grouped) : grouped[g].keyword_count >= 1

\* C8 witness: a headers-only file went through and the empty table was exported.
C8_Witness ==
    /\ dfReturn = "DataFrame"
    /\ df = <<>>
    /\ TableReturned
    /\ download = <<results>>

\* C9 as stated: rows of the returned table with equal top_keyword_volume stand in
\* the order in which their urls first appear in df_sorted.
C9_TiesInFirstSeenOrder ==
    TableReturned =>
        \A i, j \in 1..Len(results) :
            (i < j /\ results[i].top_keyword_volume = results[j].top_keyword_volume)
                => FirstSeenRank(results[i].url) < FirstSeenRank(results[j].url)

\* C9 amended: the groups enter the final sort in ascending url order, whatever the
\* order of first appearance, and the returned table holds exactly those groups,
\* each once; the order among tied groups is not fixed beyond that.
C9_GroupsEnterInUrlOrder ==
    /\ \A i, j \in 1..Len(grouped) :
            i < j => UrlRank(grouped[i].url) < UrlRank(grouped[j].url)
    /\ TableReturned =>
            /\ Len(results) = Len(grouped)
            /\ {results[i] : i \in 1..Len(results)} = {grouped[i] : i \in 1..Len(grouped)}

\* C9 witness: two tied groups whose urls first appear in the order /b, /a and which
\* the table lists in the order /a, /b.
C9_Witness ==
    /\ TableReturned
    /\ Len(results) = 2
    /\ results[1].top_keyword_volume = results[2].top_keyword_volume
    /\ FirstSeen(df_sorted, {}) = <<"/b", "/a">>
    /\ Column(results, "url") = <<"/a", "/b">>

\* C10: with no NaN volume, a record (with a url) whose position is NaN does not
\* stop cluster_keywords, and its group's avg_position is the rounded mean of the
\* group's non-NaN positions.
C10_NullPositionLeftOutOfMean ==
    \A i \in 1..Len(df) :
        LET ps == SkipNaN(Column(RowsOf(df, df[i].url), "position"))
        IN  (/\ ClusterReturned
             /\ ~HasNaN(Column(df, "volume"))
             /\ df[i].position = NaN
             /\ df[i].url # NaNText
             /\ ps # <<>>) =>
                /\ TableReturned
                /\ \E g \in 1..Len(results) :
                    /\ results[g].url = df[i].url
                    /\ results[g].avg_position = RoundTenths(SeqSum(ps), Len(ps))

====
